---- MODULE Spec2Model ----
(***************************************************************************)
(* Labeled-table semantics exercised by the two notebooks:                 *)
(*   src/ch_02/1-pandas_data_structures.ipynb  (Series, Index, DataFrame)  *)
(*   src/unnamed/part_000                      (API records -> DataFrame)  *)
(*                                                                         *)
(* Conventions.                                                            *)
(*  - A cell value is a record [t, na, n, s]: t is the Python type of the  *)
(*    value ("float", "int", "str", "none"), na marks the missing value    *)
(*    (NaN, None), n is the numeric payload, s the text payload.  A float  *)
(*    payload is held in tenths (2.5 is 25), an int payload as it is.      *)
(*  - Positions are 1-based; pandas' indexer value -1 ("no position") is   *)
(*    written 0.                                                           *)
(*  - A Python name that is not bound yet holds a value of the same shape  *)
(*    whose dtype is "undefined"; pc says which cells have run.            *)
(*  - Each notebook fragment is one specification: a fresh kernel in which *)
(*    the fragment's cells run in order; a cell that raises stops the run. *)
(***************************************************************************)
EXTENDS Integers, Sequences, FiniteSets, TLC

VARIABLES pc, err, x, y, z, array_dict, df, other, dsum,
          earthquake_json, earthquake_properties_data, earthquakes_csv,
          place, place_index, is_unique, head, out, heap, last, w, zw,
          data, row_max, col_max, argmax_row, zr, pd, response

vars == <<pc, err, x, y, z, array_dict, df, other, dsum,
          earthquake_json, earthquake_properties_data, earthquakes_csv,
          place, place_index, is_unique, head, out, heap, last, w, zw,
          data, row_max, col_max, argmax_row, zr, pd, response>>

\* the names of ch_02 cells 9-18: place, place_index, and Out[18]
idx == <<place, place_index, is_unique>>

\* the objects made so far and the operation that made the newest one
ops == <<heap, last>>

\* the third operand of a chained sum, and the chained sum
chain == <<w, zw>>

\* the record array of ch_02 cell 2 and Out[5], Out[7], Out[8]
rec == <<data, row_max, col_max, argmax_row>>

\* the module bound by 'import pandas as pd' and the response of the API
env == <<pd, response>>

\* the names of the API notebook (src/unnamed/part_000)
api == <<earthquake_json, earthquake_properties_data, earthquakes_csv>>

(***************************************************************************)
(* Bounds of the model.                                                    *)
(***************************************************************************)
MaxLen == 2

MaxRows == 2

MaxRecords == 2
MaxCols == 2

MaxObjects == 3

MaxChainLen == 2

MaxData == 3

Labels == 0 .. 2

RowLabels == 0 .. 1

(***************************************************************************)
(* Cell values.                                                            *)
(***************************************************************************)
NaN == [t |-> "float", na |-> TRUE, n |-> 0, s |-> ""]

None == [t |-> "none", na |-> TRUE, n |-> 0, s |-> ""]

Flt(v) == [t |-> "float", na |-> FALSE, n |-> v, s |-> ""]

IntVal(v) == [t |-> "int", na |-> FALSE, n |-> v, s |-> ""]

Str(u) == [t |-> "str", na |-> FALSE, n |-> 0, s |-> u]

\* an int read as a float (tenths)
AsFloat(c) == IF c.t = "int" THEN Flt(c.n * 10) ELSE c

Range(q) == {q[i] : i \in 1 .. Len(q)}

SeqsUpTo(S, n) == UNION {[1 .. k -> S] : k \in 0 .. n}

(***************************************************************************)
(* Index                                                                   *)
(***************************************************************************)
\* (mutant) the range starts at 1
RangeIndex_FromOne(n) == [i \in 1 .. n |-> i]

\* pd.RangeIndex(n): the labels 0 .. n-1
RangeIndex(n) == [i \in 1 .. n |-> i - 1]

\* ascending order of a finite set of labels
RECURSIVE SortSet(_)
SortSet(S) ==
    IF S = {} THEN <<>>
    ELSE LET m == CHOOSE a \in S : \A b \in S : a <= b
         IN  <<m>> \o SortSet(S \ {m})

\* the positions of label l in L, ascending
Positions(L, l) ==
    LET Hit(i) == L[i] = l
    IN  SelectSeq([i \in 1 .. Len(L) |-> i], Hit)

\* (mutant) a key of both sides is not matched: it gives the left positions
\* and then the right positions
JoinGroup_Unmatched(k, L, R) ==
    LET lp == Positions(L, k)
        rp == Positions(R, k)
    IN  [j \in 1 .. Len(lp) |-> <<lp[j], 0>>] \o [j \in 1 .. Len(rp) |-> <<0, rp[j]>>]

\* one key group of the full outer join: every position of the key on the
\* left with every position of it on the right; 0 on the side that lacks it
JoinGroup(k, L, R) ==
    LET lp == Positions(L, k)
        rp == Positions(R, k)
    IN  IF rp = <<>> THEN [j \in 1 .. Len(lp) |-> <<lp[j], 0>>]
        ELSE IF lp = <<>> THEN [j \in 1 .. Len(rp) |-> <<0, rp[j]>>]
        ELSE [m \in 1 .. Len(lp) * Len(rp) |->
                 <<lp[((m - 1) \div Len(rp)) + 1], rp[((m - 1) % Len(rp)) + 1]>>]

RECURSIVE JoinGroups(_, _, _)
JoinGroups(keys, L, R) ==
    IF keys = <<>> THEN <<>>
    ELSE JoinGroup(Head(keys), L, R) \o JoinGroups(Tail(keys), L, R)

\* (mutant) keys in first-seen order: the left labels, then the right-only ones
JoinKeys_FirstSeen(L, R) ==
    LET OnlyRight(l) == l \notin Range(L)
        Dedup(q) == SelectSeq([i \in 1 .. Len(q) |-> i],
                              LAMBDA i : \A j \in 1 .. i - 1 : q[j] # q[i])
        all == L \o SelectSeq(R, OnlyRight)
        first == Dedup(all)
    IN  [k \in 1 .. Len(first) |-> all[first[k]]]

\* the order in which the outer join visits the keys: ascending
JoinKeys(L, R) == SortSet(Range(L) \cup Range(R))

\* (mutant) a left join: the labels of the left index only
IndexJoin_Left(L, R) ==
    [index |-> L,
     lidx  |-> [i \in 1 .. Len(L) |-> i],
     ridx  |-> [i \in 1 .. Len(L) |->
                  IF L[i] \in Range(R)
                  THEN CHOOSE j \in 1 .. Len(R) : R[j] = L[i] /\ \A m \in 1 .. (j - 1) : R[m] # L[i]
                  ELSE 0]]

\* Index.join(other, how="outer", return_indexers=True)
IndexJoin(L, R) ==
    IF Len(R) = 0
    THEN [index |-> L, lidx |-> [i \in 1 .. Len(L) |-> i], ridx |-> [i \in 1 .. Len(L) |-> 0]]
    ELSE IF Len(L) = 0
    THEN [index |-> R, lidx |-> [i \in 1 .. Len(R) |-> 0], ridx |-> [i \in 1 .. Len(R) |-> i]]
    ELSE LET pairs == JoinGroups(JoinKeys(L, R), L, R)
         IN  [index |-> [k \in 1 .. Len(pairs) |->
                            IF pairs[k][1] # 0 THEN L[pairs[k][1]] ELSE R[pairs[k][2]]],
              lidx  |-> [k \in 1 .. Len(pairs) |-> pairs[k][1]],
              ridx  |-> [k \in 1 .. Len(pairs) |-> pairs[k][2]]]

\* alignment of two axes: equal indexes are left alone, others are joined
AlignIndex(L, R) ==
    IF L = R
    THEN [index |-> L, lidx |-> [i \in 1 .. Len(L) |-> i], ridx |-> [i \in 1 .. Len(L) |-> i]]
    ELSE IndexJoin(L, R)

(***************************************************************************)
(* Series                                                                  *)
(***************************************************************************)
\* a Series: its labels, the kind of its index object ("RangeIndex" for a
\* default index, "Index" for one made of given labels), its values, its dtype
NoSeries == [index |-> <<>>, index_kind |-> "undefined", values |-> <<>>, dtype |-> "undefined"]

\* an Index object: its labels; kind is "RangeIndex" for a default index
NoIndex == [kind |-> "undefined", labels |-> <<>>]

\* the value a cell displays (Out[n]), when it is a bool
NoBool == [bound |-> FALSE, value |-> FALSE]

\* the value a query displays (Out[n]); none before the first query
NoOut == [op |-> "none", value |-> <<>>]

\* no operation has run
NoOp == [op |-> "none", args |-> <<>>]

\* a NumPy record array: its field names, its number of dimensions and its
\* records, each a tuple of cells in field order
NoData == [dtype |-> "undefined", names |-> <<>>, ndim |-> 1, rows |-> <<>>]

\* the value a cell displays (Out[n]), when it is a scalar
NoValue == [bound |-> FALSE, value |-> [t |-> "none", na |-> TRUE, n |-> 0, s |-> ""]]

\* a NumPy array that is not bound
NoArray == [dtype |-> "undefined", values |-> <<>>]

\* the response of requests.get: its status code and what its body parses
\* to (json.ok is FALSE for a body that is not JSON)
NoResponse == [kind |-> "undefined", status_code |-> 0,
               json |-> [ok |-> FALSE, keys |-> <<>>, features |-> <<>>]]

\* the parsed body: the keys of the JSON object and the list under 'features'
NoJson == [kind |-> "undefined", keys |-> <<>>, features |-> <<>>]

\* the names that are not bound in a fresh kernel
Unbound ==
    /\ place = NoSeries
    /\ place_index = NoIndex
    /\ is_unique = NoBool
    /\ head = [kind |-> "undefined", columns |-> <<>>, index |-> <<>>,
                index_kind |-> "undefined", dtypes |-> <<>>, data |-> <<>>]
    /\ out = NoOut
    /\ heap = <<>>
    /\ last = NoOp
    /\ w = NoSeries
    /\ zw = NoSeries
    /\ data = NoData
    /\ row_max = NoValue
    /\ col_max = NoValue
    /\ argmax_row = NoArray
    /\ zr = NoSeries

\* pd.Series(data) and pd.Series(data, index=...): index is <<>> when the
\* argument is not given, <<labels>> when it is
Series(values, dtype, index) ==
    [index  |-> IF index = <<>> THEN RangeIndex(Len(values)) ELSE index[1],
     index_kind |-> IF index = <<>> THEN "RangeIndex" ELSE "Index",
     values |-> values,
     dtype  |-> dtype]

\* take with allow_fill: position 0 (pandas' -1) reads as the missing value
Take(values, p) == IF p = 0 THEN NaN ELSE values[p]

\* (mutant) the dtype is kept whatever the reindexing brings in
ReindexDtype_Keep(dtype, indexer) == dtype

\* dtype of a column after reindexing: an int64 column that received a
\* missing value becomes float64
ReindexDtype(dtype, indexer) ==
    IF dtype = "int64" /\ 0 \in Range(indexer) THEN "float64" ELSE dtype

\* dtype of left + right
AddDtype(ld, rd) ==
    IF ld = "object" \/ rd = "object" THEN "object"
    ELSE IF ld = "int64" /\ rd = "int64" THEN "int64"
    ELSE "float64"

\* (mutant) a value present on one side only is carried over
AddCell_FillAvailable(a, b, dtype) ==
    IF a.na THEN b
    ELSE IF b.na THEN a
    ELSE IF dtype = "object" THEN Str(a.s \o b.s)
    ELSE IF dtype = "int64" THEN IntVal(a.n + b.n)
    ELSE Flt(AsFloat(a).n + AsFloat(b).n)

\* (mutant) text joined right operand first
AddCell_RightThenLeft(a, b, dtype) ==
    IF a.na \/ b.na THEN NaN
    ELSE IF dtype = "object" THEN Str(b.s \o a.s)
    ELSE IF dtype = "int64" THEN IntVal(a.n + b.n)
    ELSE Flt(AsFloat(a).n + AsFloat(b).n)

\* (mutant) only the left operand is looked at for a missing value
AddCell_LeftMissingOnly(a, b, dtype) ==
    IF a.na THEN NaN
    ELSE IF dtype = "object" THEN Str(a.s \o b.s)
    ELSE IF dtype = "int64" THEN IntVal(a.n + b.n)
    ELSE Flt(AsFloat(a).n + AsFloat(b).n)

\* one element of left + right: missing if either side is missing; text is
\* concatenated, numbers are summed
AddCell(a, b, dtype) ==
    IF a.na \/ b.na THEN NaN
    ELSE IF dtype = "object" THEN Str(a.s \o b.s)
    ELSE IF dtype = "int64" THEN IntVal(a.n + b.n)
    ELSE Flt(AsFloat(a).n + AsFloat(b).n)

\* (mutant) operands paired by position instead of by label
SeriesPairing_Positional(L, R) ==
    LET al == AlignIndex(L, R)
    IN  [index |-> al.index,
         lidx  |-> [k \in 1 .. Len(al.index) |-> IF k <= Len(L) THEN k ELSE 0],
         ridx  |-> [k \in 1 .. Len(al.index) |-> IF k <= Len(R) THEN k ELSE 0]]

\* the operand positions paired at each position of the result
SeriesPairing(L, R) == AlignIndex(L, R)

\* the kind of the index of a + b: equal indexes leave the left index as it
\* is, an empty operand leaves the index of the other one, a join of labels
\* makes a new Index
AlignKind(a, b) ==
    IF a.index = b.index THEN a.index_kind
    ELSE IF Len(b.index) = 0 THEN a.index_kind
    ELSE IF Len(a.index) = 0 THEN b.index_kind
    ELSE "Index"

\* a + b for two Series
SeriesAdd(a, b) ==
    LET al == SeriesPairing(a.index, b.index)
        dt == AddDtype(ReindexDtype(a.dtype, al.lidx), ReindexDtype(b.dtype, al.ridx))
    IN  [index  |-> al.index,
         index_kind |-> AlignKind(a, b),
         values |-> [k \in 1 .. Len(al.index) |->
                        AddCell(Take(a.values, al.lidx[k]), Take(b.values, al.ridx[k]), dt)],
         dtype  |-> dt]

(***************************************************************************)
(* ch_02 cell 20: numbers; x = pd.Series(..); y = pd.Series(.., index=..); *)
(* x + y.  The arrays and the indexes are the inputs; z is Out[20].        *)
(***************************************************************************)
FloatCells == {Flt(25), Flt(50), NaN}

FloatArrays == SeqsUpTo(FloatCells, MaxLen)

\* the index argument for an array of length n: absent, or n labels
IndexArgs(n) == {<<>>} \cup {<<ix>> : ix \in [1 .. n -> Labels]}

Cell20 ==
    /\ pc = "start"
    /\ \E nx \in FloatArrays, ny \in FloatArrays :
         \E ix \in IndexArgs(Len(nx)), iy \in IndexArgs(Len(ny)) :
            /\ x' = Series(nx, "float64", ix)
            /\ y' = Series(ny, "float64", iy)
            /\ z' = SeriesAdd(x', y')
    /\ pc' = "done"
    /\ UNCHANGED <<err, array_dict, df, other, dsum, api>>
    /\ UNCHANGED <<idx, head, out, ops, chain, rec, zr>>
    /\ UNCHANGED env

InitSeries ==
    /\ pc = "start"
    /\ err = "None"
    /\ x = NoSeries /\ y = NoSeries /\ z = NoSeries
    /\ array_dict = [keys |-> <<>>, arrays |-> <<>>]
    /\ df = [kind |-> "undefined", columns |-> <<>>, index |-> <<>>,
             index_kind |-> "undefined", dtypes |-> <<>>, data |-> <<>>]
    /\ other = df
    /\ dsum = df
    /\ earthquake_json = NoJson
    /\ earthquake_properties_data = [kind |-> "undefined", items |-> <<>>]
    /\ earthquakes_csv = [exists |-> FALSE, lines |-> <<>>]
    /\ Unbound
    /\ pd = "pandas"
    /\ response = NoResponse

NextSeries == Cell20

SpecSeries == InitSeries /\ [][NextSeries]_vars

(***************************************************************************)
(* NumPy arrays and the column dictionary                                  *)
(***************************************************************************)
\* np.array(list): the dtype numpy infers from the elements
ArrayDtype(values) ==
    IF \E i \in 1 .. Len(values) : values[i].t = "str" THEN "<U"
    ELSE IF \E i \in 1 .. Len(values) : values[i].t = "none" THEN "object"
    ELSE IF values # <<>> /\ \A i \in 1 .. Len(values) : values[i].t = "int" THEN "int64"
    ELSE "float64"

NpArray(values) == [dtype |-> ArrayDtype(values), values |-> values]

\* a dict keeps its keys in insertion order: keys[i] maps to arrays[i]
NoDict == [keys |-> <<>>, arrays |-> <<>>]

(***************************************************************************)
(* DataFrame                                                               *)
(***************************************************************************)
\* a DataFrame: its column labels, its row labels and the kind of its row
\* index object (as for a Series), the dtype and the values of each column
NoFrame == [kind |-> "undefined", columns |-> <<>>, index |-> <<>>,
            index_kind |-> "undefined", dtypes |-> <<>>, data |-> <<>>]

\* the dtype a DataFrame column takes from the array it is built from
FrameDtype_AllObject(adt) == "object"

FrameDtype(adt) == IF adt = "<U" THEN "object" ELSE adt

\* (mutant) ragged arrays are accepted
SameLength_Unchecked(d) == TRUE

\* the constructor's check: "All arrays must be of the same length"
SameLength(d) ==
    \A i, j \in 1 .. Len(d.arrays) :
        Len(d.arrays[i].values) = Len(d.arrays[j].values)

\* pd.DataFrame(d) and pd.DataFrame(d, index=...) for a dict of arrays of
\* one length; index is <<>> when the argument is not given
DataFrame(d, index) ==
    LET n == IF Len(d.keys) = 0 THEN 0 ELSE Len(d.arrays[1].values)
    IN  [kind    |-> "DataFrame",
         columns |-> d.keys,
         index   |-> IF index = <<>> THEN RangeIndex(n) ELSE index[1],
         index_kind |-> IF index = <<>> THEN "RangeIndex" ELSE "Index",
         dtypes  |-> [c \in 1 .. Len(d.keys) |-> FrameDtype(d.arrays[c].dtype)],
         data    |-> [c \in 1 .. Len(d.keys) |-> d.arrays[c].values]]

\* rows kept by the slice [:n] of a sequence of length len
SliceStop(n, len) ==
    IF n >= 0 THEN (IF n < len THEN n ELSE len)
    ELSE (IF len + n > 0 THEN len + n ELSE 0)

\* (mutant) the last rows instead of the first
DataFrameHead_Tail(f, n) ==
    LET k == SliceStop(n, Len(f.index))
        from == Len(f.index) - k + 1
    IN  [kind    |-> "DataFrame",
         columns |-> f.columns,
         index   |-> SubSeq(f.index, from, Len(f.index)),
         index_kind |-> f.index_kind,
         dtypes  |-> f.dtypes,
         data    |-> [c \in 1 .. Len(f.columns) |-> SubSeq(f.data[c], from, Len(f.index))]]

\* (mutant) the rows are cut but the row index is not
DataFrameHead_KeepIndex(f, n) ==
    LET k == SliceStop(n, Len(f.index))
    IN  [kind    |-> "DataFrame",
         columns |-> f.columns,
         index   |-> f.index,
         index_kind |-> f.index_kind,
         dtypes  |-> f.dtypes,
         data    |-> [c \in 1 .. Len(f.columns) |-> SubSeq(f.data[c], 1, k)]]

\* df.head(n): self.iloc[:n], a new frame over the leading rows
DataFrameHead(f, n) ==
    LET k == SliceStop(n, Len(f.index))
    IN  [kind    |-> "DataFrame",
         columns |-> f.columns,
         index   |-> SubSeq(f.index, 1, k),
         index_kind |-> f.index_kind,
         dtypes  |-> f.dtypes,
         data    |-> [c \in 1 .. Len(f.columns) |-> SubSeq(f.data[c], 1, k)]]

\* df.head(): n defaults to 5
HeadDefault == 5

\* df.shape
Shape(f) == <<Len(f.index), Len(f.columns)>>

\* df.dtypes: one entry per column, labelled by the column
Dtypes(f) == [c \in 1 .. Len(f.columns) |-> <<f.columns[c], f.dtypes[c]>>]

\* column labels in ascending (code point) order, and a label's place in it
SortedNames == <<"alert", "felt", "mag", "magType", "place", "time", "tsunami">>

NameRank(name) == CHOOSE i \in 1 .. Len(SortedNames) : SortedNames[i] = name

NameRanks(names) == [i \in 1 .. Len(names) |-> NameRank(names[i])]

\* (mutant) only the columns of both operands are kept
FrameColumnsJoin_Inner(ca, cb) ==
    LET InB(c) == c \in Range(cb)
        keep == SelectSeq(ca, InB)
    IN  [index |-> keep,
         lidx  |-> [k \in 1 .. Len(keep) |-> CHOOSE i \in 1 .. Len(ca) : ca[i] = keep[k]],
         ridx  |-> [k \in 1 .. Len(keep) |-> CHOOSE j \in 1 .. Len(cb) : cb[j] = keep[k]]]

\* alignment of the column axes of two frames (labels given by rank)
FrameColumnsJoin(ca, cb) == AlignIndex(ca, cb)

\* df + other for two DataFrames
DataFrameAdd(A, B) ==
    LET cal    == FrameColumnsJoin(NameRanks(A.columns), NameRanks(B.columns))
        ral    == AlignIndex(A.index, B.index)
        shared == Range(A.columns) \cap Range(B.columns)
        \* some but not all columns are shared: the sum is taken over the
        \* shared columns and the result reindexed to the joined columns
        viaReindex == shared # {} /\ ~(Range(A.columns) = shared /\ Range(B.columns) = shared)
        LDtype(k) == IF cal.lidx[k] = 0 THEN "float64"
                     ELSE ReindexDtype(A.dtypes[cal.lidx[k]], ral.lidx)
        RDtype(k) == IF cal.ridx[k] = 0 THEN "float64"
                     ELSE ReindexDtype(B.dtypes[cal.ridx[k]], ral.ridx)
        ColDtype(k) == IF (cal.lidx[k] = 0 \/ cal.ridx[k] = 0) /\ viaReindex THEN "float64"
                       ELSE AddDtype(LDtype(k), RDtype(k))
        ColValues(k) ==
            [i \in 1 .. Len(ral.index) |->
                IF cal.lidx[k] = 0 \/ cal.ridx[k] = 0 THEN NaN
                ELSE AddCell(Take(A.data[cal.lidx[k]], ral.lidx[i]),
                             Take(B.data[cal.ridx[k]], ral.ridx[i]), ColDtype(k))]
    IN  [kind    |-> "DataFrame",
         columns |-> [k \in 1 .. Len(cal.index) |-> SortedNames[cal.index[k]]],
         index   |-> ral.index,
         index_kind |-> AlignKind(A, B),
         dtypes  |-> [k \in 1 .. Len(cal.index) |-> ColDtype(k)],
         data    |-> [k \in 1 .. Len(cal.index) |-> ColValues(k)]]

(***************************************************************************)
(* ch_02 cells 6 and 21: array_dict is bound to a dict of arrays, then     *)
(* df = pd.DataFrame(array_dict).  SpecCtor takes any dict of arrays.      *)
(***************************************************************************)
CtorNames == {"mag", "place", "tsunami"}

\* the values a column of the sample data may hold
ColumnCells(name) ==
    IF name = "mag" THEN {Flt(25), Flt(50)}
    ELSE IF name = "tsunami" THEN {IntVal(0), IntVal(1)}
    ELSE {Str("A"), Str("B")}

\* sequences of distinct names
KeySeqs(names, n) ==
    {ks \in SeqsUpTo(names, n) : \A i, j \in 1 .. Len(ks) : ks[i] = ks[j] => i = j}

\* every dict with the given keys whose arrays have lengths in lens and
\* hold, under key k, values of cells[k]
DictsOver(ks, lens, cells) ==
    {[keys |-> ks, arrays |-> as] :
        as \in {a \in [1 .. Len(ks) -> UNION {{NpArray(v) : v \in [1 .. n -> cells[nm]]} :
                                                 n \in lens, nm \in Range(ks)}] :
                   \A c \in 1 .. Len(ks) :
                       \A i \in 1 .. Len(a[c].values) : a[c].values[i] \in cells[ks[c]]}}

BindArrayDict ==
    /\ pc = "start"
    /\ \E ks \in KeySeqs(CtorNames, MaxCols) :
          array_dict' \in DictsOver(ks, 0 .. MaxRows, [nm \in CtorNames |-> ColumnCells(nm)])
    /\ pc' = "bound"
    /\ UNCHANGED <<err, x, y, z, df, other, dsum, api>>
    /\ UNCHANGED <<idx, head, out, ops, chain, rec, zr>>
    /\ UNCHANGED env

\* cell 21 runs once array_dict is bound, before or after cells 7 to 18; it
\* needs the name pd, which cell 9 binds
Cell21 ==
    /\ pc \in {"bound", "colmax", "picked", "series", "indexed", "queried"}
    /\ IF pd = "unbound"
       THEN /\ err' = "NameError"
            /\ pc' = "error"
            /\ UNCHANGED df
       ELSE IF SameLength(array_dict)
       THEN /\ df' = DataFrame(array_dict, <<>>)
            /\ pc' = "done"
            /\ UNCHANGED err
       ELSE /\ err' = "ValueError"
            /\ pc' = "error"
            /\ UNCHANGED df
    /\ UNCHANGED <<x, y, z, array_dict, other, dsum, api>>
    /\ UNCHANGED <<idx, head, out, ops, chain, rec, zr>>
    /\ UNCHANGED env

\* a kernel in which no cell has run
FreshKernel ==
    /\ pc = "start"
    /\ err = "None"
    /\ x = NoSeries /\ y = NoSeries /\ z = NoSeries
    /\ array_dict = NoDict
    /\ df = NoFrame /\ other = NoFrame /\ dsum = NoFrame
    /\ earthquake_json = NoJson
    /\ earthquake_properties_data = [kind |-> "undefined", items |-> <<>>]
    /\ earthquakes_csv = [exists |-> FALSE, lines |-> <<>>]
    /\ Unbound
    /\ pd = "unbound"
    /\ response = NoResponse

\* a kernel in which pandas is imported and array_dict is not bound yet
InitCtor ==
    /\ pc = "start"
    /\ err = "None"
    /\ x = NoSeries /\ y = NoSeries /\ z = NoSeries
    /\ array_dict = NoDict
    /\ df = NoFrame /\ other = NoFrame /\ dsum = NoFrame
    /\ earthquake_json = NoJson
    /\ earthquake_properties_data = [kind |-> "undefined", items |-> <<>>]
    /\ earthquakes_csv = [exists |-> FALSE, lines |-> <<>>]
    /\ Unbound
    /\ pd = "pandas"
    /\ response = NoResponse

NextCtor == BindArrayDict \/ Cell21

SpecCtor == InitCtor /\ [][NextCtor]_vars

(***************************************************************************)
(* ch_02 cells 9, 14 and 18: place = pd.Series(array_dict['place']);       *)
(* place_index = place.index; place_index.is_unique.  The cell is taken    *)
(* with and without an index argument (as cell 20 calls pd.Series).        *)
(* SpecIndex starts in a fresh kernel: array_dict is bound, then cells 9,   *)
(* 14, 18 and 21 run in that order (the recorded run), or cell 21 runs     *)
(* earlier; before cell 9 has imported pandas it raises NameError.         *)
(***************************************************************************)
\* d[k] for a dict of arrays that has the key
GetItem(d, k) == d.arrays[CHOOSE i \in 1 .. Len(d.keys) : d.keys[i] = k]

\* obj.index: the Index object of a Series or a DataFrame
SeriesIndex(s) == [kind |-> s.index_kind, labels |-> s.index]

\* (mutant) every index answers as a RangeIndex does
IsUnique_AlwaysTrue(ix) == TRUE

\* Index.is_unique: the labels are put in a hash table; the index is unique
\* when the table holds as many entries as there are labels
IsUnique(ix) == Cardinality(Range(ix.labels)) = Len(ix.labels)

Cell9 ==
    /\ pc \in {"bound", "colmax", "picked"}
    /\ pd' = "pandas"
    /\ IF "place" \in Range(array_dict.keys)
       THEN LET a == GetItem(array_dict, "place")
            IN  \E ix \in IndexArgs(Len(a.values)) :
                   /\ place' = Series(a.values, FrameDtype(a.dtype), ix)
                   /\ last' = [op |-> "Series", args |-> <<ix>>]
                   /\ pc' = "series"
                   /\ UNCHANGED err
       ELSE /\ err' = "KeyError"
            /\ pc' = "error"
            /\ UNCHANGED <<place, last>>
    /\ UNCHANGED <<x, y, z, array_dict, df, other, dsum, api>>
    /\ UNCHANGED <<place_index, is_unique, head, out, heap, chain, rec, zr>>
    /\ UNCHANGED response

Cell14 ==
    /\ pc = "series"
    /\ place_index' = SeriesIndex(place)
    /\ pc' = "indexed"
    /\ UNCHANGED <<err, x, y, z, array_dict, df, other, dsum, api>>
    /\ UNCHANGED <<place, is_unique, head, out, ops, chain, rec, zr>>
    /\ UNCHANGED env

Cell18 ==
    /\ pc = "indexed"
    /\ is_unique' = [bound |-> TRUE, value |-> IsUnique(place_index)]
    /\ pc' = "queried"
    /\ UNCHANGED <<err, x, y, z, array_dict, df, other, dsum, api>>
    /\ UNCHANGED <<place, place_index, head, out, ops, chain, rec, zr>>
    /\ UNCHANGED env

InitIndex == FreshKernel

NextIndex == BindArrayDict \/ Cell21 \/ Cell9 \/ Cell14 \/ Cell18

SpecIndex == InitIndex /\ [][NextIndex]_vars

(***************************************************************************)
(* ch_02 cell 27: df + df, taken for any two frames: df + other.           *)
(***************************************************************************)
AddNames == {"place", "tsunami"}

AddCells(name) == IF name = "tsunami" THEN {IntVal(1)} ELSE {Str("A"), Str("B")}

\* the index argument for a frame of n rows: absent, or n labels
RowIndexArgs(n) == {<<>>} \cup {<<ix>> : ix \in [1 .. n -> RowLabels]}

Frames ==
    UNION {{DataFrame(d, ix) : d \in DictsOver(ks, {n}, [nm \in AddNames |-> AddCells(nm)]), ix \in RowIndexArgs(n)} :
              ks \in KeySeqs(AddNames, MaxCols), n \in 0 .. MaxRows}

Cell27 ==
    /\ pc = "start"
    /\ \E A \in Frames, B \in Frames :
          /\ df' = A
          /\ other' = B
          /\ dsum' = DataFrameAdd(A, B)
    /\ pc' = "done"
    /\ UNCHANGED <<err, x, y, z, array_dict, api>>
    /\ UNCHANGED <<idx, head, out, ops, chain, rec, zr>>
    /\ UNCHANGED env

InitAdd == InitCtor

NextAdd == Cell27

SpecAdd == InitAdd /\ [][NextAdd]_vars

(***************************************************************************)
(* API notebook: records of the response, the table made of them, the CSV. *)
(* A Python dict is [keys, vals]: keys in insertion order, vals[i] the     *)
(* value of keys[i].  A feature is a record; it has the field "properties" *)
(* or lacks it.                                                            *)
(***************************************************************************)
NoList == [kind |-> "undefined", items |-> <<>>]

NoFile == [exists |-> FALSE, lines |-> <<>>]

HasKey(d, k) == k \in Range(d.keys)

Get(d, k) == d.vals[CHOOSE i \in 1 .. Len(d.keys) : d.keys[i] = k]

\* the list comprehension over the features: the list built so far, and
\* whether a feature without 'properties' raised KeyError
RECURSIVE Comprehend(_, _)
Comprehend(features, acc) ==
    IF features = <<>> THEN [ok |-> TRUE, out |-> acc]
    ELSE IF "properties" \notin DOMAIN Head(features) THEN [ok |-> FALSE, out |-> acc]
    ELSE Comprehend(Tail(features), Append(acc, Head(features).properties))

\* (mutant) a feature without 'properties' is skipped
ExtractProperties_Skip(features) ==
    LET Has(f) == "properties" \in DOMAIN f
        kept == SelectSeq(features, Has)
    IN  [ok |-> TRUE, out |-> [i \in 1 .. Len(kept) |-> kept[i].properties]]

\* (mutant) equal records are kept once
ExtractProperties_Dedup(features) ==
    LET r == Comprehend(features, <<>>)
        first == SelectSeq([i \in 1 .. Len(r.out) |-> i],
                           LAMBDA i : \A j \in 1 .. i - 1 : r.out[j] # r.out[i])
    IN  [ok |-> r.ok, out |-> [k \in 1 .. Len(first) |-> r.out[first[k]]]]

\* [quake['properties'] for quake in earthquake_json['features']]
ExtractProperties(features) == Comprehend(features, <<>>)

\* the keys of all rows, each once, in the order first seen
RECURSIVE FirstSeen(_, _)
FirstSeen(keys, acc) ==
    IF keys = <<>> THEN acc
    ELSE FirstSeen(Tail(keys), IF Head(keys) \in Range(acc) THEN acc ELSE Append(acc, Head(keys)))

RECURSIVE AllKeys(_)
AllKeys(rows) == IF rows = <<>> THEN <<>> ELSE Head(rows).keys \o AllKeys(Tail(rows))

\* (mutant) the columns are the keys of the first row
RecordColumns_FirstRow(rows) == IF rows = <<>> THEN <<>> ELSE Head(rows).keys

\* the columns of pd.DataFrame(list of dicts)
RecordColumns(rows) == FirstSeen(AllKeys(rows), <<>>)

\* the raw column: the row's value, NaN where the row lacks the key
RawColumn(rows, k) ==
    [i \in 1 .. Len(rows) |-> IF HasKey(rows[i], k) THEN Get(rows[i], k) ELSE NaN]

\* the dtype inferred for a column of Python objects
ObjectsDtype(raw) ==
    LET Kinds == {raw[i].t : i \in 1 .. Len(raw)}
        Present == {raw[i].t : i \in {j \in 1 .. Len(raw) : ~raw[j].na}}
    IN  IF "str" \in Kinds THEN "object"
        ELSE IF Kinds = {"none"} THEN "object"
        ELSE IF raw = <<>> THEN "object"
        ELSE IF Kinds = {"int"} THEN "int64"
        ELSE "float64"

\* the values as the column of that dtype stores them
StoreAs(raw, dtype) ==
    [i \in 1 .. Len(raw) |->
        IF dtype = "float64" THEN (IF raw[i].na THEN NaN ELSE AsFloat(raw[i]))
        ELSE raw[i]]

\* pd.DataFrame(rows) for a list of dicts
FrameFromRecords(rows) ==
    LET cols == RecordColumns(rows)
        Dt(c) == ObjectsDtype(RawColumn(rows, cols[c]))
    IN  [kind    |-> "DataFrame",
         columns |-> cols,
         index   |-> RangeIndex(Len(rows)),
         index_kind |-> "RangeIndex",
         dtypes  |-> [c \in 1 .. Len(cols) |-> Dt(c)],
         data    |-> [c \in 1 .. Len(cols) |-> StoreAs(RawColumn(rows, cols[c]), Dt(c))]]

(***************************************************************************)
(* df.to_csv('earthquakes.csv', index=False)                               *)
(***************************************************************************)
Digits == <<"0", "1", "2", "3", "4", "5", "6", "7", "8", "9">>

RECURSIVE NatStr(_)
NatStr(n) == IF n < 10 THEN Digits[n + 1] ELSE NatStr(n \div 10) \o Digits[(n % 10) + 1]

IntStr(n) == IF n < 0 THEN "-" \o NatStr(-n) ELSE NatStr(n)

\* a float held in tenths, written as Python writes it: 25 is "2.5"
FloatStr(v) ==
    LET a == IF v < 0 THEN -v ELSE v
    IN  (IF v < 0 THEN "-" ELSE "") \o NatStr(a \div 10) \o "." \o NatStr(a % 10)

\* one field: a missing value is written as nothing
CsvField(c) ==
    IF c.na THEN ""
    ELSE IF c.t = "str" THEN c.s
    ELSE IF c.t = "int" THEN IntStr(c.n)
    ELSE FloatStr(c.n)

RECURSIVE JoinComma(_)
JoinComma(fields) ==
    IF fields = <<>> THEN ""
    ELSE IF Len(fields) = 1 THEN fields[1]
    ELSE fields[1] \o "," \o JoinComma(Tail(fields))

\* the characters csv.writer looks for in a field: the delimiter, the quote
\* character and the characters of the line terminator (to_csv passes
\* os.linesep, "\n" on the kernel the notebook ran on)
Special == {",", "\"", "\n"}

\* the characters of a text, one by one
TextPieces(u) == [i \in 1 .. Len(u) |-> SubSeq(u, i, i)]

\* QUOTE_MINIMAL: a field is quoted when it holds a special character
NeedsQuote(u) == \E i \in 1 .. Len(TextPieces(u)) : TextPieces(u)[i] \in Special

\* inside the quotes a quote character is written twice
RECURSIVE Doubled(_)
Doubled(pieces) ==
    IF pieces = <<>> THEN <<>>
    ELSE (IF Head(pieces) = "\"" THEN <<"\"", "\"">> ELSE <<Head(pieces)>>)
            \o Doubled(Tail(pieces))

\* the tokens of one field: the field itself, or its characters between
\* quotes
FieldTokens(u) ==
    IF NeedsQuote(u) THEN <<"\"">> \o Doubled(TextPieces(u)) \o <<"\"">> ELSE <<u>>

RECURSIVE JoinFields(_)
JoinFields(fields) ==
    IF Len(fields) = 1 THEN FieldTokens(fields[1])
    ELSE FieldTokens(fields[1]) \o <<",">> \o JoinFields(Tail(fields))

\* csv.writer.writerow: a line is held as its tokens, the fields with a ","
\* token between them; no field gives an empty line, and a record of one
\* empty field is written as "" (two quote characters) so that the line is
\* not empty
WriteRow(fields) ==
    IF fields = <<>> THEN <<>>
    ELSE IF Len(fields) = 1 /\ fields[1] = "" THEN <<"\"", "\"">>
    ELSE JoinFields(fields)

\* the characters of a line
RECURSIVE LineText(_)
LineText(tokens) == IF tokens = <<>> THEN "" ELSE Head(tokens) \o LineText(Tail(tokens))

\* (mutant) index=True, the default of to_csv: the row labels are written
\* as a first column, under an empty name
ToCsv_WithIndex(f) ==
    [exists |-> TRUE,
     lines  |-> <<WriteRow(<<"">> \o f.columns)>> \o
                [i \in 1 .. Len(f.index) |->
                    WriteRow(<<IntStr(f.index[i])>> \o
                             [c \in 1 .. Len(f.columns) |-> CsvField(f.data[c][i])])]]

\* (mutant) header=False: the line of column names is not written
ToCsv_NoHeader(f) ==
    [exists |-> TRUE,
     lines  |-> [i \in 1 .. Len(f.index) |->
                    WriteRow([c \in 1 .. Len(f.columns) |-> CsvField(f.data[c][i])])]]

\* the lines of the file: the header, then one line per row
ToCsv(f) ==
    [exists |-> TRUE,
     lines  |-> <<WriteRow(f.columns)>> \o
                [i \in 1 .. Len(f.index) |->
                    WriteRow([c \in 1 .. Len(f.columns) |-> CsvField(f.data[c][i])])]]

(***************************************************************************)
(* part_000 cells 1, 2, 6 and 7                                            *)
(***************************************************************************)
ApiNames == {"felt", "place"}

ApiCells(name) ==
    IF name = "felt" THEN {IntVal(1), IntVal(2), None}
    ELSE {Str("A"), Str("62 km WNW of Abra Pampa, Argentina"), Str("M 1.1 \"Anza\"")}

\* the 'properties' dicts: any distinct keys in any order
PropertyDicts ==
    UNION {{[keys |-> ks, vals |-> vs] :
               vs \in {v \in [1 .. Len(ks) -> UNION {ApiCells(nm) : nm \in ApiNames}] :
                          \A i \in 1 .. Len(ks) : v[i] \in ApiCells(ks[i])}} :
              ks \in KeySeqs(ApiNames, MaxCols)}

\* a feature of the response, with or without its 'properties'
Features ==
    {[type |-> "Feature", id |-> "us7000q9mu", properties |-> p] : p \in PropertyDicts}
        \cup {[type |-> "Feature", id |-> "us7000q9mu"]}

\* the keys of the GeoJSON object the API answers with
GeoJsonKeys == <<"type", "metadata", "features", "bbox">>

\* what the API may answer: the GeoJSON object with any features, an error
\* status with a body that is not JSON, or a JSON object without 'features'
Responses ==
    {[kind |-> "Response", status_code |-> 200,
      json |-> [ok |-> TRUE, keys |-> GeoJsonKeys, features |-> fs]] :
         fs \in SeqsUpTo(Features, MaxRecords)}
      \cup {[kind |-> "Response", status_code |-> 400,
              json |-> [ok |-> FALSE, keys |-> <<>>, features |-> <<>>]],
             [kind |-> "Response", status_code |-> 200,
              json |-> [ok |-> TRUE, keys |-> <<"error">>, features |-> <<>>]]}

\* cell 1: the imports, then response = requests.get(api, params=payload);
\* the request is answered or raises (no connection, timeout); the status
\* code is displayed, not tested
ApiCell1 ==
    /\ pc = "start"
    /\ pd' = "pandas"
    /\ \/ /\ response' \in Responses
          /\ pc' = "requested"
          /\ UNCHANGED err
       \/ /\ err' = "ConnectionError"
          /\ pc' = "error"
          /\ UNCHANGED response
    /\ UNCHANGED <<x, y, z, array_dict, df, other, dsum, api>>
    /\ UNCHANGED <<idx, head, out, ops, chain, rec, zr>>

\* cell 2: earthquake_json = response.json(); a body that is not JSON raises
ApiCell2 ==
    /\ pc = "requested"
    /\ IF response.json.ok
       THEN /\ earthquake_json' = [kind |-> "dict", keys |-> response.json.keys,
                                    features |-> response.json.features]
            /\ pc' = "fetched"
            /\ UNCHANGED err
       ELSE /\ err' = "JSONDecodeError"
            /\ pc' = "error"
            /\ UNCHANGED earthquake_json
    /\ UNCHANGED <<x, y, z, array_dict, df, other, dsum,
                   earthquake_properties_data, earthquakes_csv>>
    /\ UNCHANGED <<idx, head, out, ops, chain, rec, zr>>
    /\ UNCHANGED env

\* cell 6: the properties are taken out and the table is made of them
Cell6 ==
    /\ pc = "fetched"
    /\ LET r == IF "features" \in Range(earthquake_json.keys)
                THEN ExtractProperties(earthquake_json.features)
                ELSE [ok |-> FALSE, out |-> <<>>]
       IN  IF r.ok
           THEN /\ earthquake_properties_data' = [kind |-> "list", items |-> r.out]
                /\ df' = FrameFromRecords(r.out)
                /\ head' = DataFrameHead(df', HeadDefault)
                /\ pc' = "built"
                /\ UNCHANGED err
           ELSE /\ err' = "KeyError"
                /\ pc' = "error"
                /\ UNCHANGED <<earthquake_properties_data, df, head>>
    /\ UNCHANGED <<x, y, z, array_dict, other, dsum, earthquake_json, earthquakes_csv>>
    /\ UNCHANGED <<idx, out, ops, chain, rec, zr>>
    /\ UNCHANGED env

\* cell 7: the table is written
Cell7 ==
    /\ pc = "built"
    /\ earthquakes_csv' = ToCsv(df)
    /\ pc' = "exported"
    /\ UNCHANGED <<err, x, y, z, array_dict, df, other, dsum,
                   earthquake_json, earthquake_properties_data>>
    /\ UNCHANGED <<idx, head, out, ops, chain, rec, zr>>
    /\ UNCHANGED env

InitApi == FreshKernel

NextApi == ApiCell1 \/ ApiCell2 \/ Cell6 \/ Cell7

SpecApi == InitApi /\ [][NextApi]_vars

(***************************************************************************)
(* The operations of the notebooks applied in any order.  heap holds the   *)
(* objects the calls have returned, in the order they were returned, and   *)
(* last names the call that returned the newest one; out is the value the  *)
(* last query displayed.  A call that raises stops the run.                *)
(***************************************************************************)
\* an object and its class
Obj(cls, obj) == [cls |-> cls, obj |-> obj]

\* (mutant) any index is accepted
IndexFits_Unchecked(values, index) == TRUE

\* pd.Series(data, index=...): "Length of values does not match length of
\* index" unless the index has one label per value
IndexFits(values, index) == index = <<>> \/ Len(index[1]) = Len(values)

\* the arguments the calls are tried on
OpsArrays == {<<>>, <<Flt(25)>>, <<Flt(25), NaN>>}

OpsIndexArgs == {<<>>, << <<0>> >>, << <<1, 0>> >>, << <<1, 1>> >>}

OpsDicts ==
    {[keys |-> <<"tsunami">>, arrays |-> <<NpArray(<<IntVal(1), IntVal(0)>>)>>],
     [keys |-> <<"place", "tsunami">>,
      arrays |-> <<NpArray(<<Str("A"), Str("B")>>), NpArray(<<IntVal(1), IntVal(0)>>)>>],
     [keys |-> <<"place", "tsunami">>,
      arrays |-> <<NpArray(<<Str("A")>>), NpArray(<<IntVal(1), IntVal(0)>>)>>]}

OpsRows ==
    {<<>>,
     <<[keys |-> <<"felt", "place">>, vals |-> <<IntVal(1), Str("A")>>],
       [keys |-> <<"place">>, vals |-> <<Str("B")>>]>>}

HeadArgs == {0, 1, HeadDefault}

\* pd.Series(data) or pd.Series(data, index=...)
NewSeries ==
    /\ pc = "start"
    /\ Len(heap) < MaxObjects
    /\ \E arr \in OpsArrays, ix \in OpsIndexArgs :
          /\ last' = [op |-> "Series",
                      args |-> <<Len(arr), IF ix = <<>> THEN -1 ELSE Len(ix[1])>>]
          /\ IF IndexFits(arr, ix)
             THEN /\ heap' = Append(heap, Obj("Series", Series(arr, "float64", ix)))
                  /\ UNCHANGED <<pc, err>>
             ELSE /\ err' = "ValueError"
                  /\ pc' = "error"
                  /\ UNCHANGED heap
    /\ UNCHANGED <<x, y, z, array_dict, df, other, dsum, api>>
    /\ UNCHANGED <<idx, head, out, chain, rec, zr>>
    /\ UNCHANGED env

\* pd.DataFrame(dict of arrays)
NewFrame ==
    /\ pc = "start"
    /\ Len(heap) < MaxObjects
    /\ \E d \in OpsDicts :
          /\ last' = [op |-> "DataFrame", args |-> <<>>]
          /\ IF SameLength(d)
             THEN /\ heap' = Append(heap, Obj("DataFrame", DataFrame(d, <<>>)))
                  /\ UNCHANGED <<pc, err>>
             ELSE /\ err' = "ValueError"
                  /\ pc' = "error"
                  /\ UNCHANGED heap
    /\ UNCHANGED <<x, y, z, array_dict, df, other, dsum, api>>
    /\ UNCHANGED <<idx, head, out, chain, rec, zr>>
    /\ UNCHANGED env

\* pd.DataFrame(list of dicts)
NewFrameFromRows ==
    /\ pc = "start"
    /\ Len(heap) < MaxObjects
    /\ \E rows \in OpsRows :
          heap' = Append(heap, Obj("DataFrame", FrameFromRecords(rows)))
    /\ last' = [op |-> "records", args |-> <<>>]
    /\ UNCHANGED <<pc, err, x, y, z, array_dict, df, other, dsum, api>>
    /\ UNCHANGED <<idx, head, out, chain, rec, zr>>
    /\ UNCHANGED env

\* frame.head(n)
HeadOp ==
    /\ pc = "start"
    /\ Len(heap) < MaxObjects
    /\ \E i \in 1 .. Len(heap), n \in HeadArgs :
          /\ heap[i].cls = "DataFrame"
          /\ heap' = Append(heap, Obj("DataFrame", DataFrameHead(heap[i].obj, n)))
          /\ last' = [op |-> "head", args |-> <<i, n>>]
    /\ UNCHANGED <<pc, err, x, y, z, array_dict, df, other, dsum, api>>
    /\ UNCHANGED <<idx, head, out, chain, rec, zr>>
    /\ UNCHANGED env

\* a + b for two Series or two DataFrames
AddOp ==
    /\ pc = "start"
    /\ Len(heap) < MaxObjects
    /\ \E i, j \in 1 .. Len(heap) :
          /\ heap[i].cls = heap[j].cls
          /\ heap' = Append(heap, Obj(heap[i].cls,
                                      IF heap[i].cls = "Series"
                                      THEN SeriesAdd(heap[i].obj, heap[j].obj)
                                      ELSE DataFrameAdd(heap[i].obj, heap[j].obj)))
          /\ last' = [op |-> "add", args |-> <<i, j>>]
    /\ UNCHANGED <<pc, err, x, y, z, array_dict, df, other, dsum, api>>
    /\ UNCHANGED <<idx, head, out, chain, rec, zr>>
    /\ UNCHANGED env

\* df.values: the rows of the frame as one array, whose dtype holds every
\* column: the columns' dtype when they share one, float64 for int64 with
\* float64, object otherwise (float64 for a frame without columns)
FrameValues(f) ==
    LET c  == Len(f.columns)
        dt == IF c = 0 THEN "float64"
              ELSE IF \A k \in 1 .. c : f.dtypes[k] = f.dtypes[1] THEN f.dtypes[1]
              ELSE IF \A k \in 1 .. c : f.dtypes[k] \in {"int64", "float64"}
              THEN "float64"
              ELSE "object"
    IN  [dtype  |-> dt,
         values |-> [i \in 1 .. Len(f.index) |->
                        [k \in 1 .. c |->
                            IF dt = "float64" THEN AsFloat(f.data[k][i])
                            ELSE f.data[k][i]]]]

\* the attributes the notebook displays
Queries == {"is_unique", "shape", "dtype", "values"}

\* what obj.index.is_unique, obj.shape, place.dtype or df.dtypes, and
\* obj.values display
Query(o, q) ==
    IF q = "is_unique" THEN IsUnique(SeriesIndex(o.obj))
    ELSE IF q = "shape"
    THEN (IF o.cls = "Series" THEN <<Len(o.obj.values)>> ELSE Shape(o.obj))
    ELSE IF q = "dtype"
    THEN (IF o.cls = "Series" THEN o.obj.dtype ELSE Dtypes(o.obj))
    ELSE (IF o.cls = "Series"
          THEN [dtype |-> o.obj.dtype, values |-> o.obj.values]
          ELSE FrameValues(o.obj))

\* a query of an object made earlier: the value is displayed and no object
\* is made
QueryOp ==
    /\ pc = "start"
    /\ \E i \in 1 .. Len(heap), q \in Queries :
          /\ out' = [op |-> q, value |-> Query(heap[i], q)]
          /\ is_unique' = IF q = "is_unique"
                          THEN [bound |-> TRUE, value |-> Query(heap[i], q)]
                          ELSE is_unique
    /\ UNCHANGED <<pc, err, x, y, z, array_dict, df, other, dsum, api>>
    /\ UNCHANGED <<place, place_index, head, ops, chain, rec, zr>>
    /\ UNCHANGED env

\* frame.to_csv('earthquakes.csv', index=False)
ExportOp ==
    /\ pc = "start"
    /\ \E i \in 1 .. Len(heap) :
          /\ heap[i].cls = "DataFrame"
          /\ earthquakes_csv' = ToCsv(heap[i].obj)
    /\ UNCHANGED <<pc, err, x, y, z, array_dict, df, other, dsum,
                   earthquake_json, earthquake_properties_data>>
    /\ UNCHANGED <<idx, head, out, ops, chain, rec, zr>>
    /\ UNCHANGED env

InitOps == InitCtor

NextOps ==
    NewSeries \/ NewFrame \/ NewFrameFromRows \/ HeadOp \/ AddOp \/ QueryOp \/ ExportOp

SpecOps == InitOps /\ [][NextOps]_vars

(***************************************************************************)
(* The two places where a column gets its dtype under missing values: the  *)
(* table made of the API records and the sum of two frames.  SpecTyping    *)
(* runs either fragment.                                                   *)
(***************************************************************************)
InitTyping == InitCtor

NextTyping == NextAdd \/ NextApi

SpecTyping == InitTyping /\ [][NextTyping]_vars

(***************************************************************************)
(* ch_02 cell 20 continued: the sum x + y is summed with a third Series,   *)
(* (x + y) + w.                                                            *)
(***************************************************************************)
ChainCells == {Flt(25), NaN}

ChainSeries ==
    UNION {{Series(arr, "float64", ix) : ix \in RowIndexArgs(Len(arr))} :
              arr \in SeqsUpTo(ChainCells, MaxChainLen)}

\* x + y
ChainFirst ==
    /\ pc = "start"
    /\ \E a \in ChainSeries, b \in ChainSeries :
          /\ x' = a
          /\ y' = b
          /\ z' = SeriesAdd(a, b)
    /\ pc' = "summed"
    /\ UNCHANGED <<err, array_dict, df, other, dsum, api>>
    /\ UNCHANGED <<idx, head, out, ops, chain, rec, zr>>
    /\ UNCHANGED env

\* (x + y) + w
ChainSecond ==
    /\ pc = "summed"
    /\ \E c \in ChainSeries :
          /\ w' = c
          /\ zw' = SeriesAdd(z, c)
    /\ pc' = "chained"
    /\ UNCHANGED <<err, x, y, z, array_dict, df, other, dsum, api>>
    /\ UNCHANGED <<idx, head, out, ops, rec, zr>>
    /\ UNCHANGED env

InitChain == InitSeries

NextChain == ChainFirst \/ ChainSecond

SpecChain == InitChain /\ [][NextChain]_vars

(***************************************************************************)
(* ch_02 cell 20 with the operands exchanged: after x + y, the sum y + x   *)
(* of the same two Series.                                                 *)
(***************************************************************************)
Cell20Swapped ==
    /\ pc = "done"
    /\ zr' = SeriesAdd(y, x)
    /\ pc' = "swapped"
    /\ UNCHANGED <<err, x, y, z, array_dict, df, other, dsum, api>>
    /\ UNCHANGED <<idx, head, out, ops, chain, rec>>
    /\ UNCHANGED env

InitSwap == InitSeries

NextSwap == Cell20 \/ Cell20Swapped

SpecSwap == InitSwap /\ [][NextSwap]_vars

(***************************************************************************)
(* ch_02 cells 2 to 21 in a fresh kernel: the record array read from the   *)
(* file, the largest magnitude computed over the records (cell 5) and over *)
(* the column dictionary made of them (cells 6, 7), the record at the      *)
(* largest magnitude (cell 8), the Series of places and its index (cells   *)
(* 9, 14, 18) and the table made of the dictionary (cell 21).  Cells 5 and *)
(* 6 each need only data; the later cells need array_dict; cell 21 also    *)
(* needs the import of cell 9.                                             *)
(***************************************************************************)
\* data.dtype.names: the header of the file, in order
FieldNames == <<"time", "place", "magType", "mag", "alert", "tsunami">>

\* the values a field of the file holds; a number that is missing in the
\* file reads as nan
FieldCells(name) ==
    IF name = "mag" THEN {Flt(25), Flt(50), NaN}
    ELSE IF name = "tsunami" THEN {IntVal(0), IntVal(1)}
    ELSE IF name = "place" THEN {Str("A"), Str("B")}
    ELSE IF name = "time" THEN {Str("T")}
    ELSE IF name = "magType" THEN {Str("mww")}
    ELSE {Str("green")}

\* one line of the file: a value for every field
FileRows ==
    {<<t, p, mt, m, a, ts>> :
        t \in FieldCells("time"), p \in FieldCells("place"),
        mt \in FieldCells("magType"), m \in FieldCells("mag"),
        a \in FieldCells("alert"), ts \in FieldCells("tsunami")}

\* np.genfromtxt(.., names=True, dtype=None): a record array with the
\* header's names; the result is squeezed, so a file of one line gives a
\* 0-d array and any other file a 1-d array
GenFromTxt(lines) ==
    [dtype |-> "record",
     names |-> FieldNames,
     ndim  |-> IF Len(lines) = 1 THEN 0 ELSE 1,
     rows  |-> lines]

\* row[3]: the fourth field of a record
MagField == 4

\* a > b for two floats: every comparison with nan is False
Gt(a, b) == ~a.na /\ ~b.na /\ a.n > b.n

\* Python's max over a list: the running maximum m is replaced by an item
\* only when item > m
RECURSIVE PyMaxFrom(_, _, _)
PyMaxFrom(m, values, i) ==
    IF i > Len(values) THEN m
    ELSE PyMaxFrom(IF Gt(values[i], m) THEN values[i] ELSE m, values, i + 1)

PyMax(values) == PyMaxFrom(values[1], values, 2)

\* (mutant) the comprehension reads the field after the one enumerated
FieldColumn_NextField(rows, i) ==
    [j \in 1 .. Len(rows) |-> rows[j][(i % Len(FieldNames)) + 1]]

\* [row[i] for row in data]
FieldColumn(rows, i) == [j \in 1 .. Len(rows) |-> rows[j][i]]

\* {col: np.array([row[i] for row in data]) for i, col in enumerate(names)}
ColumnDict(d) ==
    [keys   |-> d.names,
     arrays |-> [i \in 1 .. Len(d.names) |-> NpArray(FieldColumn(d.rows, i))]]

\* ndarray.max(): nan when a value is nan, else the largest value
NpMax(values) ==
    IF \E i \in 1 .. Len(values) : values[i].na THEN NaN
    ELSE CHOOSE v \in Range(values) : \A u \in Range(values) : u.n <= v.n

\* ndarray.argmax(): the first position holding the maximum (the first nan
\* when a value is nan)
NpArgmax(values) ==
    CHOOSE i \in 1 .. Len(values) :
        /\ values[i] = NpMax(values)
        /\ \A j \in 1 .. (i - 1) : values[j] # NpMax(values)

\* str(value) of a NumPy scalar
ScalarStr(c) ==
    IF c.t = "str" THEN c.s
    ELSE IF c.na THEN "nan"
    ELSE IF c.t = "int" THEN IntStr(c.n)
    ELSE FloatStr(c.n)

\* np.array(list of scalars): the values are converted to the one dtype that
\* holds them all: text when a value is text, float when ints meet floats
NpArrayCast(values) ==
    LET dt == ArrayDtype(values)
    IN  [dtype  |-> dt,
         values |-> [i \in 1 .. Len(values) |->
                        IF dt = "<U" THEN Str(ScalarStr(values[i]))
                        ELSE IF dt = "float64" THEN AsFloat(values[i])
                        ELSE values[i]]]

\* cell 2
Cell2 ==
    /\ pc = "start"
    /\ \E lines \in SeqsUpTo(FileRows, MaxData) : data' = GenFromTxt(lines)
    /\ pc' = "loaded"
    /\ UNCHANGED <<err, x, y, z, array_dict, df, other, dsum, api>>
    /\ UNCHANGED <<idx, head, out, ops, chain, row_max, col_max, argmax_row, zr>>
    /\ UNCHANGED env

\* cell 5: max([row[3] for row in data]); a 0-d array cannot be iterated
\* and max of an empty list raises
Cell5 ==
    /\ pc = "loaded"
    /\ IF data.ndim = 0
       THEN /\ err' = "TypeError"
            /\ pc' = "error"
            /\ UNCHANGED row_max
       ELSE IF data.rows = <<>>
       THEN /\ err' = "ValueError"
            /\ pc' = "error"
            /\ UNCHANGED row_max
       ELSE /\ row_max' = [bound |-> TRUE,
                           value |-> PyMax(FieldColumn(data.rows, MagField))]
            /\ pc' = "rowmax"
            /\ UNCHANGED err
    /\ UNCHANGED <<x, y, z, array_dict, df, other, dsum, api>>
    /\ UNCHANGED <<idx, head, out, ops, chain, data, col_max, argmax_row, zr>>
    /\ UNCHANGED env

\* cell 6: array_dict is made of the records
Cell6Dict ==
    /\ pc \in {"loaded", "rowmax"}
    /\ IF data.ndim = 0
       THEN /\ err' = "TypeError"
            /\ pc' = "error"
            /\ UNCHANGED array_dict
       ELSE /\ array_dict' = ColumnDict(data)
            /\ pc' = "bound"
            /\ UNCHANGED err
    /\ UNCHANGED <<x, y, z, df, other, dsum, api>>
    /\ UNCHANGED <<idx, head, out, ops, chain, rec, zr>>
    /\ UNCHANGED env

\* cell 7: array_dict['mag'].max(); the maximum of an empty array raises
Cell7Max ==
    /\ pc = "bound"
    /\ IF GetItem(array_dict, "mag").values = <<>>
       THEN /\ err' = "ValueError"
            /\ pc' = "error"
            /\ UNCHANGED col_max
       ELSE /\ col_max' = [bound |-> TRUE,
                           value |-> NpMax(GetItem(array_dict, "mag").values)]
            /\ pc' = "colmax"
            /\ UNCHANGED err
    /\ last' = [op |-> "max", args |-> <<>>]
    /\ UNCHANGED <<x, y, z, array_dict, df, other, dsum, api>>
    /\ UNCHANGED <<idx, head, out, heap, chain, data, row_max, argmax_row, zr>>
    /\ UNCHANGED env

\* cell 8: np.array([value[array_dict['mag'].argmax()]
\*                   for key, value in array_dict.items()])
Cell8 ==
    /\ pc = "colmax"
    /\ LET at == NpArgmax(GetItem(array_dict, "mag").values)
       IN  argmax_row' = NpArrayCast([c \in 1 .. Len(array_dict.keys) |->
                                         array_dict.arrays[c].values[at]])
    /\ pc' = "picked"
    /\ UNCHANGED <<err, x, y, z, array_dict, df, other, dsum, api>>
    /\ UNCHANGED <<idx, head, out, ops, chain, data, row_max, col_max, zr>>
    /\ UNCHANGED env

InitRecords == FreshKernel

NextRecords ==
    Cell2 \/ Cell5 \/ Cell6Dict \/ Cell7Max \/ Cell8 \/ Cell9 \/ Cell14 \/ Cell18 \/ Cell21

SpecRecords == InitRecords /\ [][NextRecords]_vars

(***************************************************************************)
(* Properties of x + y (SpecSeries)                                        *)
(***************************************************************************)
IsSorted(L) == \A i, j \in 1 .. Len(L) : i < j => L[i] <= L[j]

IsUniqueSeq(L) == \A i, j \in 1 .. Len(L) : L[i] = L[j] => i = j

LeftThenRightOnly(L, R) ==
    LET OnlyRight(l) == l \notin Range(L)
    IN  L \o SelectSeq(R, OnlyRight)

\* C1 as stated: the index of x + y is the labels of x in x's order followed
\* by the labels found only in y, in y's order, never re-sorted.
C1_LeftThenRightOrder ==
    pc = "done" => z.index = LeftThenRightOnly(x.index, y.index)

\* C1 amended: the index of x + y holds exactly the labels of either operand;
\* it is x's index as it stands when the two indexes are equal or y is empty,
\* y's index when x is empty, and otherwise the labels in ascending order
\* (each once when the labels of both operands are unique).
C1_IndexOfSum ==
    pc = "done" =>
        /\ Range(z.index) = Range(x.index) \cup Range(y.index)
        /\ (x.index = y.index \/ Len(y.index) = 0) => z.index = x.index
        /\ Len(x.index) = 0 => z.index = y.index
        /\ (x.index # y.index /\ Len(x.index) > 0 /\ Len(y.index) > 0) =>
               /\ IsSorted(z.index)
               /\ (IsUniqueSeq(x.index) /\ IsUniqueSeq(y.index)) => IsUniqueSeq(z.index)

\* x + y was computed over differing, unsorted indexes and came out sorted
C1_Witness ==
    /\ pc = "done"
    /\ x.index = <<2, 0>>
    /\ y.index = <<1, 0>>
    /\ z.index = <<0, 1, 2>>

\* C2: at every label present in both operands the result holds the sum of
\* the two values carrying that label (paired by label, not by position).
C2_SharedLabelSum ==
    pc = "done" =>
        \A k \in 1 .. Len(z.index) :
            (z.index[k] \in Range(x.index) \cap Range(y.index)) =>
                \E i \in 1 .. Len(x.index), j \in 1 .. Len(y.index) :
                    /\ x.index[i] = z.index[k]
                    /\ y.index[j] = z.index[k]
                    /\ IF x.values[i].na \/ y.values[j].na
                       THEN z.values[k].na
                       ELSE z.values[k] = Flt(x.values[i].n + y.values[j].n)

\* the notebook's shape: x labelled 0,1 and y labelled 1,2 over the same
\* values; label 1 sits at position 2 of x and position 1 of y
C2_Witness ==
    /\ pc = "done"
    /\ x.index = <<0, 1>> /\ x.values = <<Flt(25), Flt(50)>>
    /\ y.index = <<1, 2>> /\ y.values = <<Flt(25), Flt(50)>>
    /\ z.index = <<0, 1, 2>>
    /\ z.values[2] = Flt(75)

\* C3: every label found in exactly one operand is in the result and holds
\* the missing value there, and the addition completes without an error.
C3_LoneLabelMissing ==
    /\ pc = "start" => ENABLED Cell20
    /\ pc = "done" =>
        /\ err = "None"
        /\ z.dtype # "undefined"
        /\ \A l \in (Range(x.index) \cup Range(y.index)) \ (Range(x.index) \cap Range(y.index)) :
               /\ l \in Range(z.index)
               /\ \A k \in 1 .. Len(z.index) : z.index[k] = l => z.values[k] = NaN

\* a label of x alone, holding a number in x, is missing in x + y
C3_Witness ==
    /\ pc = "done"
    /\ x.index = <<0, 1>> /\ x.values = <<Flt(25), Flt(50)>>
    /\ y.index = <<1, 2>> /\ y.values = <<Flt(25), Flt(50)>>
    /\ z.values[1] = NaN /\ z.values[3] = NaN

(***************************************************************************)
(* Properties of df + other (SpecAdd)                                      *)
(***************************************************************************)
InOne(l, S, T) == (l \in S) # (l \in T)

\* C4: the columns of df + other are the union of both column label sets and
\* the rows the union of both row label sets; a column of one operand only is
\* kept with every cell missing, and in a column of both operands a row label
\* of one operand only holds a missing cell.
C4_OuterUnion ==
    pc = "done" =>
        /\ Range(dsum.columns) = Range(df.columns) \cup Range(other.columns)
        /\ Range(dsum.index) = Range(df.index) \cup Range(other.index)
        /\ \A k \in 1 .. Len(dsum.columns) :
              /\ Len(dsum.data[k]) = Len(dsum.index)
              /\ \A i \in 1 .. Len(dsum.index) :
                    (\/ InOne(dsum.columns[k], Range(df.columns), Range(other.columns))
                     \/ InOne(dsum.index[i], Range(df.index), Range(other.index)))
                        => dsum.data[k][i].na

\* a column of other alone and a row of df alone, both present and missing
C4_Witness ==
    /\ pc = "done"
    /\ df.columns = <<"place">> /\ df.index = <<0, 1>>
    /\ other.columns = <<"tsunami", "place">> /\ other.index = <<1>>
    /\ dsum.columns = <<"place", "tsunami">> /\ dsum.index = <<0, 1>>
    /\ dsum.data[1][1].na /\ ~dsum.data[1][2].na
    /\ dsum.data[2] = <<NaN, NaN>>

\* C5: adding two frames with equal row index and equal column index gives a
\* frame with that row index, that column index and that shape; a cell is
\* missing only if it is missing in an operand, text cells are the left text
\* followed by the right text, numeric cells are the sum.
C5_SameLabelsAdd ==
    (pc = "done" /\ df.index = other.index /\ df.columns = other.columns) =>
        /\ dsum.index = df.index
        /\ dsum.columns = df.columns
        /\ Shape(dsum) = Shape(df)
        /\ \A k \in 1 .. Len(df.columns) :
              /\ Len(dsum.data[k]) = Len(df.index)
              /\ \A i \in 1 .. Len(df.index) :
                    LET a == df.data[k][i]
                        b == other.data[k][i]
                        r == dsum.data[k][i]
                    IN  /\ r.na => (a.na \/ b.na)
                        /\ (a.t = "str" /\ b.t = "str") => r = Str(a.s \o b.s)
                        /\ (a.t = "int" /\ b.t = "int") => r = IntVal(a.n + b.n)

\* two frames with the same labels and different text: "A" + "B" is "AB"
C5_Witness ==
    /\ pc = "done"
    /\ df.columns = <<"place", "tsunami">> /\ other.columns = df.columns
    /\ df.index = <<0, 1>> /\ other.index = df.index
    /\ df.data[1][1] = Str("A") /\ other.data[1][1] = Str("B")
    /\ dsum.data[1][1] = Str("AB")
    /\ dsum.data[2][1] = IntVal(2)

(***************************************************************************)
(* Properties of pd.DataFrame(array_dict) (SpecCtor)                       *)
(***************************************************************************)
EqualLengths(d) ==
    \A i, j \in 1 .. Len(d.arrays) : Len(d.arrays[i].values) = Len(d.arrays[j].values)

CommonLength(d) == IF Len(d.keys) = 0 THEN 0 ELSE Len(d.arrays[1].values)

\* C6: for a dict of arrays of one length n (0 included) the constructor
\* succeeds, shape is (n, number of keys), the columns are the keys in their
\* order, and dtypes has one entry per column, decided by that column's
\* values: float64 or int64 for numbers, object for text.
C6_ConstructColumns ==
    (pc \in {"done", "error"} /\ EqualLengths(array_dict)) =>
        /\ pc = "done"
        /\ err = "None"
        /\ df.kind = "DataFrame"
        /\ Shape(df) = <<CommonLength(array_dict), Len(array_dict.keys)>>
        /\ df.columns = array_dict.keys
        /\ Len(Dtypes(df)) = Len(array_dict.keys)
        /\ \A c \in 1 .. Len(array_dict.keys) :
              LET v == array_dict.arrays[c].values
              IN  /\ Dtypes(df)[c][1] = array_dict.keys[c]
                  /\ df.data[c] = v
                  /\ (v # <<>> /\ \A i \in 1 .. Len(v) : v[i].t = "str") => Dtypes(df)[c][2] = "object"
                  /\ (v # <<>> /\ \A i \in 1 .. Len(v) : v[i].t = "float") => Dtypes(df)[c][2] = "float64"
                  /\ (v # <<>> /\ \A i \in 1 .. Len(v) : v[i].t = "int") => Dtypes(df)[c][2] = "int64"

\* two rows of a numeric and a text column: shape (2, 2), float64 and object
C6_Witness ==
    /\ pc = "done"
    /\ array_dict.keys = <<"mag", "place">>
    /\ array_dict.arrays[1].values = <<Flt(50), Flt(25)>>
    /\ array_dict.arrays[2].values = <<Str("A"), Str("B")>>
    /\ Shape(df) = <<2, 2>>
    /\ Dtypes(df) = << <<"mag", "float64">>, <<"place", "object">> >>

\* C7: for a dict whose arrays differ in length the constructor raises
\* ValueError, the run stops there and df is not bound to any table.
C7_ShapeMismatch ==
    (pc \in {"done", "error"} /\ ~EqualLengths(array_dict)) =>
        /\ pc = "error"
        /\ err = "ValueError"
        /\ df = NoFrame

\* arrays of lengths 2 and 1 were given and refused
C7_Witness ==
    /\ pc = "error"
    /\ err = "ValueError"
    /\ array_dict.keys = <<"mag", "place">>
    /\ Len(array_dict.arrays[1].values) = 2
    /\ Len(array_dict.arrays[2].values) = 1
    /\ df.kind = "undefined"

(***************************************************************************)
(* Properties of the API notebook (SpecApi)                                *)
(***************************************************************************)
AllHaveProperties(fs) == \A i \in 1 .. Len(fs) : "properties" \in DOMAIN fs[i]

\* cell 6 ran on a response that has its 'features'
Cell6Ran ==
    /\ pc \in {"built", "exported", "error"}
    /\ earthquake_json.kind = "dict"
    /\ "features" \in Range(earthquake_json.keys)

\* where a key is first seen: the first row holding it, and its place there
FirstRowWith(rows, k) ==
    CHOOSE i \in 1 .. Len(rows) :
        /\ k \in Range(rows[i].keys)
        /\ \A j \in 1 .. i - 1 : k \notin Range(rows[j].keys)

PlaceIn(row, k) == CHOOSE p \in 1 .. Len(row.keys) : row.keys[p] = k

SeenBefore(rows, k1, k2) ==
    LET r1 == FirstRowWith(rows, k1)
        r2 == FirstRowWith(rows, k2)
    IN  r1 < r2 \/ (r1 = r2 /\ PlaceIn(rows[r1], k1) < PlaceIn(rows[r2], k2))

\* C8: the table made of a list of row dicts is always made; it has one row
\* per dict in input order, its columns are the keys of all rows, each once,
\* in first-seen order; a cell holds the row's value where the row has the
\* key and the missing value where it has not.
C8_ConstructRows ==
    /\ (Cell6Ran /\ AllHaveProperties(earthquake_json.features)) => pc # "error"
    /\ pc \in {"built", "exported"} =>
        LET rows == earthquake_properties_data.items
        IN  /\ err = "None"
            /\ df.kind = "DataFrame"
            /\ df.index = [i \in 1 .. Len(rows) |-> i - 1]
            /\ Range(df.columns) = UNION {Range(rows[i].keys) : i \in 1 .. Len(rows)}
            /\ \A c1, c2 \in 1 .. Len(df.columns) :
                  c1 < c2 => SeenBefore(rows, df.columns[c1], df.columns[c2])
            /\ \A c \in 1 .. Len(df.columns) :
                  /\ Len(df.data[c]) = Len(rows)
                  /\ \A i \in 1 .. Len(rows) :
                        LET k == df.columns[c]
                        IN  IF k \in Range(rows[i].keys)
                            THEN LET v == rows[i].vals[PlaceIn(rows[i], k)]
                                 IN  IF v.na THEN df.data[c][i].na
                                     ELSE AsFloat(df.data[c][i]) = AsFloat(v)
                            ELSE df.data[c][i] = NaN

\* rows {felt: 1, place: "A"} and {place: "62 km WNW of Abra Pampa,
\* Argentina"}: columns felt, place; the
\* second row has no felt
C8_Witness ==
    /\ pc = "built"
    /\ earthquake_properties_data.items =
          << [keys |-> <<"felt", "place">>, vals |-> <<IntVal(1), Str("A")>>],
             [keys |-> <<"place">>, vals |-> <<Str("62 km WNW of Abra Pampa, Argentina")>>] >>
    /\ df.columns = <<"felt", "place">>
    /\ df.data[1] = <<Flt(10), NaN>>
    /\ df.data[2] = <<Str("A"), Str("62 km WNW of Abra Pampa, Argentina")>>

\* C9: when every record has 'properties', the extracted list has the length
\* of the input and its i-th element is the 'properties' of the i-th record
\* (order kept, nothing dropped, equal records kept), and the input is not
\* changed by the extraction.
C9_ExtractAll ==
    /\ [](Cell6Ran /\ AllHaveProperties(earthquake_json.features) =>
            /\ pc # "error"
            /\ earthquake_properties_data.kind = "list"
            /\ Len(earthquake_properties_data.items) = Len(earthquake_json.features)
            /\ \A i \in 1 .. Len(earthquake_json.features) :
                  earthquake_properties_data.items[i] = earthquake_json.features[i].properties)
    /\ [][pc = "fetched" => earthquake_json' = earthquake_json]_vars

\* two equal records with different key sets beside them are all extracted
C9_Witness ==
    /\ pc = "built"
    /\ Len(earthquake_json.features) = 2
    /\ earthquake_json.features[1] = earthquake_json.features[2]
    /\ earthquake_json.features[1].properties.keys = <<"place", "felt">>
    /\ Len(earthquake_properties_data.items) = 2
    /\ earthquake_properties_data.items[1] = earthquake_properties_data.items[2]

\* C10: the extraction raises KeyError exactly when some record lacks
\* 'properties'; the run stops there: no list (not even a partial one) is
\* bound, no table is made and nothing is written.
C10_MissingField ==
    Cell6Ran =>
        /\ (pc = "error") <=> ~AllHaveProperties(earthquake_json.features)
        /\ pc = "error" =>
              /\ err = "KeyError"
              /\ earthquake_properties_data = NoList
              /\ df = NoFrame
              /\ earthquakes_csv = NoFile
        /\ pc # "error" => err = "None"

\* the second record lacks 'properties' after a first that has them
C10_Witness ==
    /\ pc = "error"
    /\ err = "KeyError"
    /\ Len(earthquake_json.features) = 2
    /\ "properties" \in DOMAIN earthquake_json.features[1]
    /\ "properties" \notin DOMAIN earthquake_json.features[2]
    /\ earthquake_properties_data.kind = "undefined"
    /\ ~earthquakes_csv.exists

(***************************************************************************)
(* Properties of place.index (SpecIndex)                                   *)
(***************************************************************************)
NoTwoEqual(L) == \A i, j \in 1 .. Len(L) : i # j => L[i] # L[j]

\* C11: place_index.is_unique is True exactly when no two positions of the
\* index hold equal labels (so it is True for the empty index), and asking
\* leaves the index and the series it came from as they were.
C11_IsUnique ==
    /\ [](pc = "queried" =>
            /\ is_unique.bound
            /\ is_unique.value = NoTwoEqual(place_index.labels)
            /\ (place_index.labels = <<>> => is_unique.value))
    /\ [][pc = "indexed" => place_index' = place_index /\ place' = place]_vars

\* an index that repeats a label, and is_unique answered False
C11_Witness ==
    /\ pc = "queried"
    /\ place_index.labels = <<1, 1>>
    /\ is_unique.value = FALSE

\* C12: a Series or DataFrame made without an index argument has the row
\* index 0 .. n-1, n being the number of values (rows): its length is n and
\* no label repeats.
C12_DefaultIndex ==
    /\ (pc \in {"series", "indexed", "queried"} /\ last.args = << <<>> >>) =>
          /\ Len(place.index) = Len(place.values)
          /\ \A i \in 1 .. Len(place.index) : place.index[i] = i - 1
          /\ NoTwoEqual(place.index)
    /\ pc = "done" =>
          /\ \A c \in 1 .. Len(df.columns) : Len(df.index) = Len(array_dict.arrays[c].values)
          /\ \A i \in 1 .. Len(df.index) : df.index[i] = i - 1
          /\ NoTwoEqual(df.index)

\* a series of two values made without an index
C12_Witness ==
    /\ pc = "series"
    /\ last.args = << <<>> >>
    /\ Len(place.values) = 2
    /\ place.index = <<0, 1>>

(***************************************************************************)
(* Properties of the export (SpecApi)                                      *)
(***************************************************************************)
\* the delimiters of a line: the "," tokens that are not between quotes
Delimiters(line) ==
    {k \in 1 .. Len(line) :
        /\ line[k] = ","
        /\ Cardinality({j \in 1 .. k - 1 : line[j] = "\""}) % 2 = 0}

\* the fields a CSV reader finds on a line: none on an empty line, else one
\* more than there are delimiters
FieldCount(line) == IF line = <<>> THEN 0 ELSE Cardinality(Delimiters(line)) + 1

\* the characters of the k-th field of a line, as written
FieldAt(line, k) ==
    LET ends == SortSet({0, Len(line) + 1} \cup Delimiters(line))
    IN  LineText(SubSeq(line, ends[k] + 1, ends[k + 1] - 1))

\* a text that holds the delimiter, a quote or a line break
HasSpecial(u) == \E i \in 1 .. Len(u) : SubSeq(u, i, i) \in {",", "\"", "\n"}

\* a text with each of its quotes written twice
RECURSIVE DoubleQuotes(_)
DoubleQuotes(u) ==
    IF u = "" THEN ""
    ELSE (IF Head(u) = "\"" THEN "\"\"" ELSE Head(u)) \o DoubleQuotes(Tail(u))

\* what the file holds for a field: a text that holds the delimiter, a
\* quote or a line break is between quotes, its quotes doubled; a lone
\* empty field is ""
Written(u, lone) ==
    IF HasSpecial(u) THEN "\"" \o DoubleQuotes(u) \o "\""
    ELSE IF u = "" /\ lone THEN "\"\""
    ELSE u

\* C13: the export of a table of r rows and c columns has r + 1 lines; the
\* first is the column names joined by commas, in column order; line i + 1
\* holds the c serialized values of row i in column order (a value that
\* holds the delimiter or a quote between quotes); no row label is written,
\* so every line has exactly c fields.
C13_ExportLayout ==
    pc = "exported" =>
        LET r == Len(df.index)
            c == Len(df.columns)
            lines == earthquakes_csv.lines
        IN  /\ earthquakes_csv.exists
            /\ Len(lines) = r + 1
            /\ LineText(lines[1]) = JoinComma(df.columns)
            /\ \A i \in 1 .. r + 1 : FieldCount(lines[i]) = c
            /\ \A k \in 1 .. c : FieldAt(lines[1], k) = df.columns[k]
            /\ \A i \in 1 .. r : \A k \in 1 .. c :
                   FieldAt(lines[i + 1], k) = Written(CsvField(df.data[k][i]), c = 1)

\* two rows and two columns written as three lines, a missing value as an
\* empty field, a text that holds the delimiter between quotes
C13_Witness ==
    /\ pc = "exported"
    /\ df.columns = <<"place", "felt">>
    /\ Len(df.index) = 2
    /\ earthquakes_csv.lines[1] = <<"place", ",", "felt">>
    /\ earthquakes_csv.lines[2] = <<"A", ",", "1.0">>
    /\ LineText(earthquakes_csv.lines[3]) = "\"62 km WNW of Abra Pampa, Argentina\","

(***************************************************************************)
(* Properties of the round trip (SpecApi).  No cell reads the file back;   *)
(* the exported text is read here by the rules of the format it is written *)
(* in: one record per line, fields between the delimiters outside quotes.  *)
(***************************************************************************)
\* no text of the table holds a delimiter (or any character that is quoted)
PlainTable ==
    \A c \in 1 .. Len(df.columns) : \A i \in 1 .. Len(df.data[c]) :
        df.data[c][i].t = "str" => ~HasSpecial(df.data[c][i].s)

\* the fields of a line: a quote opens or closes a quoted field, two quotes
\* inside one stand for a quote character, and a delimiter outside quotes
\* ends the field
RECURSIVE ReadFields(_, _, _, _)
ReadFields(tokens, inq, cur, acc) ==
    IF tokens = <<>> THEN Append(acc, cur)
    ELSE IF Head(tokens) = "\""
    THEN IF ~inq THEN ReadFields(Tail(tokens), TRUE, cur, acc)
         ELSE IF Len(tokens) >= 2 /\ tokens[2] = "\""
         THEN ReadFields(Tail(Tail(tokens)), TRUE, cur \o "\"", acc)
         ELSE ReadFields(Tail(tokens), FALSE, cur, acc)
    ELSE IF Head(tokens) = "," /\ ~inq
    THEN ReadFields(Tail(tokens), FALSE, "", Append(acc, cur))
    ELSE ReadFields(Tail(tokens), inq, cur \o Head(tokens), acc)

ReadRow(tokens) == IF tokens = <<>> THEN <<>> ELSE ReadFields(tokens, FALSE, "", <<>>)

\* the records read from the lines of the file
Parsed == [i \in 1 .. Len(earthquakes_csv.lines) |-> ReadRow(earthquakes_csv.lines[i])]

\* C14: the exported text of a table of numeric and plain-text columns,
\* read back, has the shape of the table (one record per row after the
\* record of names, one field per column in every record) and the column
\* names in the same order.
C14_RoundTrip ==
    (pc = "exported" /\ PlainTable) =>
        /\ Len(Parsed) >= 1
        /\ <<Len(Parsed) - 1, Len(Parsed[1])>> = Shape(df)
        /\ \A i \in 1 .. Len(Parsed) : Len(Parsed[i]) = Len(df.columns)
        /\ Parsed[1] = df.columns

\* two rows and two columns, one value missing, read back as the names and
\* two records of two fields
C14_Witness ==
    /\ pc = "exported"
    /\ PlainTable
    /\ df.columns = <<"felt", "place">>
    /\ Len(df.index) = 2
    /\ df.data[1][2].na
    /\ Parsed = << <<"felt", "place">>, <<"1.0", "A">>, <<"", "A">> >>

(***************************************************************************)
(* Properties of the operations in any order (SpecOps)                     *)
(***************************************************************************)
Newest == heap[Len(heap)].obj

OlderObjectsKept == \A i \in 1 .. Len(heap) : Len(heap') >= i /\ heap'[i] = heap[i]

\* C15: frame.head(n) is a frame of the first min(n, row count) rows of the
\* source in their order, under the leading labels of the row index and the
\* same columns in the same order; the source is left as it was.
C15_Head ==
    /\ [](last.op = "head" =>
            LET src == heap[last.args[1]].obj
                n   == last.args[2]
                k   == IF n < Len(src.index) THEN n ELSE Len(src.index)
            IN  /\ Len(Newest.index) = k
                /\ \A i \in 1 .. k : Newest.index[i] = src.index[i]
                /\ Newest.columns = src.columns
                /\ \A c \in 1 .. Len(src.columns) :
                       /\ Len(Newest.data[c]) = k
                       /\ \A i \in 1 .. k : Newest.data[c][i] = src.data[c][i])
    /\ [][(last'.op = "head" /\ heap' # heap) => OlderObjectsKept]_vars

\* head(1) of a frame of two rows
C15_Witness ==
    /\ last.op = "head"
    /\ last.args[2] = 1
    /\ Len(heap[last.args[1]].obj.index) = 2
    /\ Len(heap[last.args[1]].obj.columns) = 2
    /\ Len(Newest.index) = 1

FrameOk(f) ==
    /\ Len(f.data) = Len(f.columns)
    /\ Len(f.dtypes) = Len(f.columns)
    /\ \A c \in 1 .. Len(f.data) : Len(f.data[c]) = Len(f.index)
    /\ Shape(f) = <<Len(f.index), Len(f.columns)>>

\* C18: every frame made by the constructors, head and + has all its
\* columns as long as its one row index, and its shape is (length of the
\* row index, number of columns).
C18_TableShape ==
    \A i \in 1 .. Len(heap) : heap[i].cls = "DataFrame" => FrameOk(heap[i].obj)

\* the sum of a frame of two rows and its head(1): two rows again, by the
\* outer union of the row labels
C18_Witness ==
    /\ Len(heap) = 3
    /\ heap[1].cls = "DataFrame"
    /\ Len(heap[1].obj.index) = 2
    /\ Len(heap[2].obj.index) = 1
    /\ last.op = "add"
    /\ last.args = <<1, 2>>
    /\ Len(heap[3].obj.index) = 2
    /\ Len(heap[3].obj.columns) = 2

IndexArgMismatch(l) == l.op = "Series" /\ l.args[2] # -1 /\ l.args[2] # l.args[1]

\* C19: every Series made by the constructor (with or without an index) and
\* by + has as many values as index labels; pd.Series(data, index=...) with
\* an index of another length raises and makes no Series.
C19_SeriesLength ==
    /\ [](/\ \A i \in 1 .. Len(heap) :
                heap[i].cls = "Series" => Len(heap[i].obj.values) = Len(heap[i].obj.index)
          /\ IndexArgMismatch(last) => (pc = "error" /\ err = "ValueError"))
    /\ [][IndexArgMismatch(last') => heap' = heap]_vars

\* one value and an index of two labels: ValueError, after a sum was made
C19_Witness ==
    /\ pc = "error"
    /\ last = [op |-> "Series", args |-> <<1, 2>>]
    /\ Len(heap) = 2
    /\ heap[2].cls = "Series"
    /\ Len(heap[2].obj.index) = 2

(***************************************************************************)
(* Properties of the column dtypes (SpecTyping)                            *)
(***************************************************************************)
\* the rows that hold an int, a text, nothing under a key
RowsWith(rows, k, t) ==
    {i \in 1 .. Len(rows) : HasKey(rows[i], k) /\ Get(rows[i], k).t = t}

RowsMissing(rows, k) ==
    {i \in 1 .. Len(rows) : ~HasKey(rows[i], k) \/ Get(rows[i], k).na}

ColumnOf(f, name) == CHOOSE c \in 1 .. Len(f.columns) : f.columns[c] = name

\* C16: a column whose present values are all integers is float64 as soon
\* as one of its cells is missing and int64 when none is, both in the table
\* made of row dicts (a row lacks the key or holds None) and in the sum of
\* two frames (the alignment of the rows or columns brings in missing
\* cells); the other columns keep their own type.
C16_Promotion ==
    /\ pc \in {"built", "exported"} =>
          LET rows == earthquake_properties_data.items
          IN  \A c \in 1 .. Len(df.columns) :
                 LET k == df.columns[c]
                     ints == RowsWith(rows, k, "int")
                     text == RowsWith(rows, k, "str")
                     miss == RowsMissing(rows, k)
                 IN  /\ (ints # {} /\ text = {} /\ miss # {}) =>
                            /\ df.dtypes[c] = "float64"
                            /\ \A i \in ints : df.data[c][i] = Flt(10 * Get(rows[i], k).n)
                            /\ \A i \in miss : df.data[c][i] = NaN
                     /\ (ints # {} /\ text = {} /\ miss = {}) =>
                            /\ df.dtypes[c] = "int64"
                            /\ \A i \in ints : df.data[c][i] = Get(rows[i], k)
                     /\ text # {} => df.dtypes[c] = "object"
    /\ pc = "done" =>
          LET grown == Range(df.index) # Range(other.index)
          IN  \A c \in 1 .. Len(dsum.columns) :
                 LET k == dsum.columns[c]
                     inA == k \in Range(df.columns)
                     inB == k \in Range(other.columns)
                     TypeIn(f) == f.dtypes[ColumnOf(f, k)]
                 IN  /\ (inA /\ inB /\ TypeIn(df) = "int64" /\ TypeIn(other) = "int64") =>
                            dsum.dtypes[c] = (IF grown THEN "float64" ELSE "int64")
                     /\ (inA /\ ~inB /\ TypeIn(df) = "int64") => dsum.dtypes[c] = "float64"
                     /\ (inB /\ ~inA /\ TypeIn(other) = "int64") => dsum.dtypes[c] = "float64"
                     /\ (inA /\ inB /\ TypeIn(df) = "object") => dsum.dtypes[c] = "object"

\* felt is 1 in the first record and absent from the second: the column is
\* float64 (1.0, NaN) while place stays text
C16_Witness ==
    /\ pc = "built"
    /\ df.columns = <<"felt", "place">>
    /\ df.dtypes = <<"float64", "object">>
    /\ df.data[1] = <<Flt(10), NaN>>
    /\ ~HasKey(earthquake_properties_data.items[2], "felt")

(***************************************************************************)
(* Properties of the chained sum (SpecChain)                               *)
(***************************************************************************)
\* the label is in the series and every value under it is missing
MissingAt(s, l) ==
    /\ l \in Range(s.index)
    /\ \A i \in 1 .. Len(s.index) : s.index[i] = l => s.values[i].na

\* the value under a label that occurs once
ValueAt(s, l) == s.values[CHOOSE i \in 1 .. Len(s.index) : s.index[i] = l]

\* C20: under a label of both operands a missing value on either side makes
\* the sum missing there (NaN, which is none of the numbers); so a label
\* that is missing in x + y is still missing in (x + y) + w whatever w
\* holds under it.
C20_MissingPropagates ==
    /\ pc \in {"summed", "chained"} =>
          /\ \A l \in Range(x.index) \cap Range(y.index) :
                (MissingAt(x, l) \/ MissingAt(y, l)) => MissingAt(z, l)
          /\ (IsUniqueSeq(x.index) /\ IsUniqueSeq(y.index)) =>
                \A l \in Range(x.index) \cap Range(y.index) :
                    (ValueAt(x, l).na \/ ValueAt(y, l).na) =>
                        ValueAt(z, l) = NaN
    /\ pc = "chained" =>
          \A l \in Range(z.index) : MissingAt(z, l) => MissingAt(zw, l)

\* x holds a number under label 0 and y a missing value: x + y is missing
\* under 0, and stays so after adding w, which holds a number under 0
C20_Witness ==
    /\ pc = "chained"
    /\ x.index = <<0>> /\ y.index = <<0>> /\ w.index = <<0>>
    /\ x.values = <<Flt(25)>>
    /\ y.values = <<NaN>>
    /\ w.values = <<Flt(25)>>
    /\ z.values = <<NaN>>
    /\ zw.values = <<NaN>>

(***************************************************************************)
(* Properties of the record array and its column dictionary (SpecRecords)  *)
(***************************************************************************)
\* array_dict is bound by cell 6 of this run
DictBuilt == pc \in {"bound", "colmax", "picked", "series", "indexed", "queried", "done"}

\* d holds, column by column, what the records r hold row by row
TransposeOf(d, r) ==
    /\ d.keys = r.names
    /\ Len(d.arrays) = Len(r.names)
    /\ \A i \in 1 .. Len(r.names) :
          /\ Len(d.arrays[i].values) = Len(r.rows)
          /\ \A j \in 1 .. Len(r.rows) : d.arrays[i].values[j] = r.rows[j][i]

\* cell 21 raised: the error is a ValueError that neither max raised
Cell21Raised ==
    /\ pc = "error"
    /\ err = "ValueError"
    /\ array_dict # NoDict
    /\ last.op # "max"

\* C21: the dictionary made of the records is their transpose: one key per
\* field in field order, every column as long as there are records, and
\* element j of column i is field i of record j; so the columns pass the
\* constructor's length check, the constructor never raises, and the table
\* has as many rows as there are records and as many columns as fields.
C21_Transpose ==
    /\ DictBuilt => TransposeOf(array_dict, data)
    /\ DictBuilt => SameLength(array_dict)
    /\ ~Cell21Raised
    /\ pc = "done" => /\ df.kind = "DataFrame"
                      /\ Shape(df) = <<Len(data.rows), Len(FieldNames)>>

C21_Witness ==
    /\ pc = "done"
    /\ Len(data.rows) = 3
    /\ data.rows[1] # data.rows[2]
    /\ data.rows[2][MagField] = NaN
    /\ Shape(df) = <<3, 6>>

\* the magnitudes of the records, in record order
Mags == [j \in 1 .. Len(data.rows) |-> data.rows[j][MagField]]

\* the first record whose magnitude is v
FirstWithMag(v) ==
    CHOOSE j \in 1 .. Len(Mags) :
        Mags[j] = v /\ \A k \in 1 .. (j - 1) : Mags[k] # v

\* there is at least one record
SomeRecord == data.dtype = "record" /\ (data.ndim = 0 \/ data.rows # <<>>)

\* C22: for every non-empty set of records the maximum over the records
\* (cell 5) and the maximum of the mag column (cell 7) are both computed
\* and are equal, and the array of cell 8 has one entry per column in
\* column order, entry i being field i (as the array holds it, as text) of
\* the first record holding that maximum.
C22_MaxAgree ==
    /\ SomeRecord => err \notin {"TypeError", "ValueError"}
    /\ (row_max.bound /\ col_max.bound) => row_max.value = col_max.value
    /\ pc = "picked" =>
          /\ Len(argmax_row.values) = Len(array_dict.keys)
          /\ \A i \in 1 .. Len(array_dict.keys) :
                argmax_row.values[i] =
                    Str(ScalarStr(data.rows[FirstWithMag(col_max.value)][i]))

(***************************************************************************)
(* Properties of the index of x + y under unique labels (SpecSeries)       *)
(***************************************************************************)
\* both operands of cell 20 have unique labels
UniqueOperands == NoTwoEqual(x.index) /\ NoTwoEqual(y.index)

\* C23: when no label occurs twice in x and none occurs twice in y, no label
\* occurs twice in x + y (is_unique is True), a label of both operands
\* included, and the index of x + y has as many labels as the union of the
\* two label sets: |Lx| + |Ly| - |Lx \cap Ly|.
C23_UniquePreserved ==
    (pc = "done" /\ UniqueOperands) =>
        /\ NoTwoEqual(z.index)
        /\ IsUnique(SeriesIndex(z))
        /\ Len(z.index) = Cardinality(Range(x.index) \cup Range(y.index))
        /\ Len(z.index) = Len(x.index) + Len(y.index)
                            - Cardinality(Range(x.index) \cap Range(y.index))

C23_Witness ==
    /\ pc = "done"
    /\ x.index = <<2, 1>>
    /\ y.index = <<1, 0>>
    /\ Len(z.index) = 3

(***************************************************************************)
(* Properties of x + y and y + x (SpecSwap)                                *)
(***************************************************************************)
\* the labels under which the series holds a missing value
MissingLabels(s) == {l \in Range(s.index) : MissingAt(s, l)}

\* C24: for x and y with unique labels, x + y and y + x have the same set of
\* labels, the same value under every label of both operands, and missing
\* values under the same labels, the labels of one operand only among them.
C24_Symmetric ==
    (pc = "swapped" /\ UniqueOperands) =>
        /\ Range(z.index) = Range(zr.index)
        /\ Len(z.index) = Len(zr.index)
        /\ \A l \in Range(x.index) \cap Range(y.index) : ValueAt(z, l) = ValueAt(zr, l)
        /\ MissingLabels(z) = MissingLabels(zr)
        /\ \A l \in Range(x.index) \cup Range(y.index) :
              InOne(l, Range(x.index), Range(y.index)) => l \in MissingLabels(z)

C24_Witness ==
    /\ pc = "swapped"
    /\ x.index = <<0, 1>>
    /\ y.index = <<2, 1>>
    /\ ValueAt(z, 1) = Flt(75)
    /\ ValueAt(zr, 1) = Flt(75)
    /\ MissingLabels(zr) = {0, 2}

====
